---------------------------- MODULE Spec2Model ----------------------------
(***************************************************************************)
(* Electrostatics playground (src/sketch.js): point charges under mutual   *)
(* Coulomb forces, a damped explicit integrator with reflecting walls, an  *)
(* electric field sampler, a streamline tracer and the mouse/tool input    *)
(* layer that creates, drags and erases particles.                         *)
(*                                                                         *)
(* Numbers.  Every JavaScript Number of the program is kept on a decimal   *)
(* fixed-point grid: the integer n stands for the real n / SCALE.  Sums,   *)
(* differences and negations are exact on the grid; products, quotients    *)
(* and square roots are rounded to the nearest grid value (ties to even,   *)
(* sign-symmetric), which is what IEEE-754 does with the nearest double.   *)
(* The grid is uniform, as the doubles are in their subnormal range.       *)
(* Intermediate values are split so that nothing leaves 32 bits.           *)
(***************************************************************************)
EXTENDS Integers, Sequences, FiniteSets

\* grid values per unit
SCALE == 1000

Fx(n) == n * SCALE

\* the decimal literal num/den, e.g. 0.02 == Dec(2, 100)
Dec(num, den) == (num * SCALE) \div den

Abs(a) == IF a < 0 THEN -a ELSE a

Sgn(a) == IF a < 0 THEN -1 ELSE IF a > 0 THEN 1 ELSE 0

\* b, once a has been evaluated (loops are run strictly, pass by pass)
After(a, b) == IF a = a THEN b ELSE b

Max(a, b) == IF a >= b THEN a ELSE b

Min(a, b) == IF a <= b THEN a ELSE b

\* n / d for n >= 0, d > 0, to the nearest integer, ties to even
RoundDiv(n, d) ==
  LET q == n \div d
      r == n % d
  IN  IF r > d - r \/ (r = d - r /\ q % 2 = 1) THEN q + 1 ELSE q

\* a * b on the grid (the larger operand is split at SCALE)
MulFx(a, b) ==
  LET big   == Max(Abs(a), Abs(b))
      small == Min(Abs(a), Abs(b))
  IN  Sgn(a) * Sgn(b)
        * ((big \div SCALE) * small + RoundDiv((big % SCALE) * small, SCALE))

\* a / b on the grid, b # 0
DivFx(a, b) ==
  LET n == Abs(a)
      d == Abs(b)
  IN  Sgn(a) * Sgn(b) * ((n \div d) * SCALE + RoundDiv((n % d) * SCALE, d))

\* floor(v * SCALE / x) for v >= 0, x > 0
DivFloorFx(v, x) == (v \div x) * SCALE + ((v % x) * SCALE) \div x

\* a starting point of Newton's iteration, not below sqrt(v * SCALE)
SqrtGuess(v) ==
  IF v <= 10 THEN 100
  ELSE IF v <= 1000 THEN 1000
  ELSE IF v <= 100000 THEN 10000
  ELSE IF v <= 10000000 THEN 100000
  ELSE IF v <= 1000000000 THEN 1000000
  ELSE 1500000

RECURSIVE SqrtNewton(_, _)
\* floor(sqrt(v * SCALE)) by Newton's iteration from x >= the root
SqrtNewton(v, x) ==
  LET y == (x + DivFloorFx(v, x)) \div 2
  IN  IF y >= x THEN x ELSE SqrtNewton(v, y)

\* Math.sqrt on the grid: the nearest grid value to the real root, v >= 0
SqrtFx(v) ==
  IF v = 0 THEN 0
  ELSE LET r   == SqrtNewton(v, SqrtGuess(v))
           q   == DivFloorFx(v, r)
           m   == ((v % r) * SCALE) % r
           rem == (q - r) * r + m
       IN  IF rem > r THEN r + 1 ELSE r

-----------------------------------------------------------------------------
(* p5.Vector, two components *)

Vec(x, y) == [x |-> x, y |-> y]

VAdd(a, b) == Vec(a.x + b.x, a.y + b.y)

VSub(a, b) == Vec(a.x - b.x, a.y - b.y)

VMult(a, n) == Vec(MulFx(a.x, n), MulFx(a.y, n))

\* p5.Vector.div leaves the vector alone (and warns) when n is 0
VDiv(a, n) == IF n = 0 THEN a ELSE Vec(DivFx(a.x, n), DivFx(a.y, n))

VMagSq(a) == MulFx(a.x, a.x) + MulFx(a.y, a.y)

VMag(a) == SqrtFx(VMagSq(a))

\* p5.Vector.normalize: unchanged when the length is 0
VNormalize(a) ==
  LET len == VMag(a)
  IN  IF len # 0 THEN VMult(a, DivFx(Fx(1), len)) ELSE a

\* p5's dist(x1, y1, x2, y2)
Dist(x1, y1, x2, y2) == VMag(Vec(x2 - x1, y2 - y1))

-----------------------------------------------------------------------------
(* Globals (sketch.js 5-28) *)

canvasWidth == 1000

canvasHeight == 600

\* p5's width and height: the canvas is created canvasWidth by canvasHeight
width == Fx(canvasWidth)

height == Fx(canvasHeight)

numLinesPerCharge == 32

streamlineStep == Dec(22, 10)

maxStreamlineLen == 600

\* the field magnitude below which a streamline stops
fieldThreshold == Dec(1, 100)

\* drawElectricField's grid spacing
spacing == 30

\* the hit-test margin around a particle's radius
hitMargin == 2

\* the absorption margin around a negative particle's radius
sinkMargin == 4

VARIABLES
  particles,         \* the particles array: a sequence of Particle objects
  activeTool,        \* Null or a tool name
  selectedParticle,  \* NullRef or a reference to a Particle (its identity)
  dragging,
  hasPlacedParticle,
  showElectricField,
  showFieldLines,
  globalFriction,
  kCoulomb,
  minDistance,
  ticks,             \* how many frames draw() has run
  moves,             \* how many slider inputs have come
  last,              \* the last press, drag or frame, and what it met
  phase,             \* "idle", or "forces" between draw()'s two physics passes
  calls,             \* the applyForce calls of the last force pass
  tr                 \* traceStreamline's locals, traceIdle outside a call

vars == <<particles, activeTool, selectedParticle, dragging, hasPlacedParticle,
          showElectricField, showFieldLines, globalFriction, kCoulomb,
          minDistance, ticks, moves, last, phase, calls, tr>>

\* JavaScript's null: as a tool name, and as a reference (identities count from 1)
Null == "null"

NullRef == 0

-----------------------------------------------------------------------------
(* class Particle.  id is the object's identity: what a reference holds. *)

Particle(id, x, y, charge) ==
  [id |-> id, pos |-> Vec(x, y), vel |-> Vec(0, 0), acc |-> Vec(0, 0),
   charge |-> charge, mass |-> Fx(1), radius |-> Fx(5)]

applyForce(p, force) == [p EXCEPT !.acc = VAdd(p.acc, VDiv(force, p.mass))]

\* handleEdges, were it to clamp the position and leave the velocity alone
handleEdgesKeepsVel(p) ==
  [p EXCEPT !.pos = Vec(Max(0, Min(p.pos.x, Fx(canvasWidth))),
                        Max(0, Min(p.pos.y, Fx(canvasHeight))))]

handleEdges(p) ==
  LET cx == IF p.pos.x < 0 THEN 0
            ELSE IF p.pos.x > Fx(canvasWidth) THEN Fx(canvasWidth)
            ELSE p.pos.x
      cy == IF p.pos.y < 0 THEN 0
            ELSE IF p.pos.y > Fx(canvasHeight) THEN Fx(canvasHeight)
            ELSE p.pos.y
      vx == IF cx # p.pos.x THEN MulFx(p.vel.x, Fx(-1)) ELSE p.vel.x
      vy == IF cy # p.pos.y THEN MulFx(p.vel.y, Fx(-1)) ELSE p.vel.y
  IN  [p EXCEPT !.pos = Vec(cx, cy), !.vel = Vec(vx, vy)]

\* update(), were it to damp after adding the acceleration
integrateDampsLast(p) ==
  LET v == VMult(VAdd(p.vel, p.acc), Fx(1) - globalFriction)
  IN  [p EXCEPT !.vel = v, !.pos = VAdd(p.pos, v), !.acc = Vec(0, 0)]

\* update(), were it to leave out the damping
integrateUndamped(p) ==
  LET v == VAdd(p.vel, p.acc)
  IN  [p EXCEPT !.vel = v, !.pos = VAdd(p.pos, v), !.acc = Vec(0, 0)]

\* update() up to handleEdges:
\* vel.mult(1 - globalFriction); vel.add(acc); pos.add(vel); acc.set(0, 0)
integrate(p) ==
  LET v == VAdd(VMult(p.vel, Fx(1) - globalFriction), p.acc)
  IN  [p EXCEPT !.vel = v, !.pos = VAdd(p.pos, v), !.acc = Vec(0, 0)]

update(p) == handleEdges(integrate(p))

-----------------------------------------------------------------------------
(* Coulomb force *)

\* the force the pair loop's body computes for p1 (p2 gets its negation)
pairForce(p1, p2) ==
  LET rVec     == VSub(p1.pos, p2.pos)
      mag      == VMag(rVec)
      r        == IF mag < minDistance THEN minDistance ELSE mag
      rHat     == VDiv(rVec, r)
      forceMag == DivFx(MulFx(MulFx(kCoulomb, p1.charge), p2.charge), MulFx(r, r))
  IN  VMult(rHat, forceMag)

\* the inner loop's body, were it to apply the same force to both particles
pairStepSameForce(ps, i, j) ==
  LET force == pairForce(ps[i], ps[j])
      ps1   == [ps EXCEPT ![i] = applyForce(@, force)]
  IN  [particles |-> [ps1 EXCEPT ![j] = applyForce(@, force)],
       calls     |-> << [to |-> ps[i].id, force |-> force],
                        [to |-> ps[j].id, force |-> force] >>]

\* the inner loop's body on particles[i] and particles[j]: the array after
\* it, and the applyForce calls it made
pairStep(ps, i, j) ==
  LET force == pairForce(ps[i], ps[j])
      back  == VMult(force, Fx(-1))
      ps1   == [ps EXCEPT ![i] = applyForce(@, force)]
  IN  [particles |-> [ps1 EXCEPT ![j] = applyForce(@, back)],
       calls     |-> << [to |-> ps[i].id, force |-> force],
                        [to |-> ps[j].id, force |-> back] >>]

RECURSIVE forceLoop(_, _, _, _)
\* the two nested loops from (i, j) on; indices count from 1 here
forceLoop(ps, log, i, j) ==
  IF i > Len(ps) THEN [particles |-> ps, calls |-> log]
  ELSE IF j > Len(ps) THEN forceLoop(ps, log, i + 1, i + 2)
  ELSE LET s == pairStep(ps, i, j)
       IN  forceLoop(s.particles, log \o s.calls, i, j + 1)

applyCoulombForces(ps) == forceLoop(ps, <<>>, 1, 2)

-----------------------------------------------------------------------------
(* Electric field.  The functions below run inside draw() on the live      *)
(* particles array: each returns the array as it leaves it, with its value. *)

\* the loop body, were it to keep its rx, ry in the particle it visits
fieldBodyWrites(ps, k, x, y, E) ==
  [particles |-> [ps EXCEPT ![k].acc = Vec(x - ps[k].pos.x, y - ps[k].pos.y)],
   E         |-> E]

\* the loop body for particles[k]: the array after it and the sum so far
fieldBody(ps, k, x, y, E) ==
  LET p  == ps[k]
      rx == x - p.pos.x
      ry == y - p.pos.y
      r2 == MulFx(rx, rx) + MulFx(ry, ry)
  IN  IF r2 < MulFx(minDistance, minDistance) THEN [particles |-> ps, E |-> E]
      ELSE LET r  == SqrtFx(r2)
               Ep == DivFx(MulFx(kCoulomb, p.charge), r2)
           IN  [particles |-> ps,
                E |-> Vec(E.x + MulFx(Ep, DivFx(rx, r)),
                          E.y + MulFx(Ep, DivFx(ry, r)))]

RECURSIVE fieldLoop(_, _, _, _)
\* the loop from particles[k] on; s holds the array and the sum so far
fieldLoop(s, k, x, y) ==
  IF k > Len(s.particles) THEN s
  ELSE fieldLoop(fieldBody(s.particles, k, x, y, s.E), k + 1, x, y)

computeElectricFieldAtPoint(ps, x, y) ==
  fieldLoop([particles |-> ps, E |-> Vec(0, 0)], 1, x, y)

-----------------------------------------------------------------------------
(* Streamlines *)

\* whether (x, y) is within radius + 4 of a negative particle
absorbed(ps, x, y) ==
  \E k \in 1..Len(ps) :
    /\ ps[k].charge < 0
    /\ Dist(x, y, ps[k].pos.x, ps[k].pos.y) < ps[k].radius + Fx(sinkMargin)

outside(x, y) == x < 0 \/ x > width \/ y < 0 \/ y > height

\* no call of traceStreamline is running
traceIdle == [x |-> 0, y |-> 0, pts |-> <<>>, i |-> 0, exit |-> "idle"]

\* traceStreamline's locals on entry; exit says why the loop was left and is
\* "" while it runs
traceStart(startX, startY) ==
  [x |-> startX, y |-> startY, pts |-> <<>>, i |-> 0,
   exit |-> IF 0 < maxStreamlineLen THEN "" ELSE "length"]

\* the rest of a pass, were the bounds test left out
afterPushUnbounded(ps, st, pt) ==
  LET st1 == [st EXCEPT !.x = pt.x, !.y = pt.y, !.pts = Append(@, <<pt.x, pt.y>>)]
  IN  IF absorbed(ps, pt.x, pt.y) THEN [st1 EXCEPT !.exit = "sink"]
      ELSE IF st.i + 1 < maxStreamlineLen THEN [st1 EXCEPT !.i = @ + 1]
      ELSE [st1 EXCEPT !.i = @ + 1, !.exit = "length"]

\* the rest of a pass once the point pt has been pushed: the bounds test,
\* the sink test, and the loop's i++ with its condition
afterPush(ps, st, pt) ==
  LET st1 == [st EXCEPT !.x = pt.x, !.y = pt.y, !.pts = Append(@, <<pt.x, pt.y>>)]
  IN  IF outside(pt.x, pt.y) THEN [st1 EXCEPT !.exit = "outside"]
      ELSE IF absorbed(ps, pt.x, pt.y) THEN [st1 EXCEPT !.exit = "sink"]
      ELSE IF st.i + 1 < maxStreamlineLen THEN [st1 EXCEPT !.i = @ + 1]
      ELSE [st1 EXCEPT !.i = @ + 1, !.exit = "length"]

\* a pass of the loop body from the field value E on
afterField(ps, st, E) ==
  IF VMag(E) < fieldThreshold THEN [st EXCEPT !.exit = "null"]
  ELSE afterPush(ps, st, VAdd(Vec(st.x, st.y), VMult(VNormalize(E), streamlineStep)))

\* one pass of the loop body from the locals st: the array after it and the
\* locals after it
traceStep(ps, st) ==
  LET f == computeElectricFieldAtPoint(ps, st.x, st.y)
  IN  [particles |-> f.particles, st |-> afterField(f.particles, st, f.E)]

RECURSIVE traceLoop(_, _, _)
\* at most n further passes of the loop (halved, to keep the evaluation flat)
traceLoop(ps, st, n) ==
  IF st.exit # "" \/ n = 0 THEN [particles |-> ps, st |-> st]
  ELSE IF n = 1 THEN traceStep(ps, st)
  ELSE LET s == traceLoop(ps, st, n \div 2)
       IN  traceLoop(s.particles, s.st, n - n \div 2)

\* the array as the call leaves it, and the returned points
traceStreamline(ps, startX, startY) ==
  LET s == traceLoop(ps, traceStart(startX, startY), maxStreamlineLen)
  IN  [particles |-> s.particles, pts |-> s.st.pts]

\* cos(TWO_PI * n / 32) for n = 0..31, in thousandths
cosTable ==
  << 1000, 981, 924, 831, 707, 556, 383, 195, 0, -195, -383, -556, -707,
     -831, -924, -981, -1000, -981, -924, -831, -707, -556, -383, -195, 0,
     195, 383, 556, 707, 831, 924, 981 >>

\* Math.cos and Math.sin of the n-th seed angle, on the grid
Cos(n) == (cosTable[(n % 32) + 1] * SCALE) \div 1000

Sin(n) == Cos(n + 24)

\* the inner loop's body for particles[k] and line n (never reached for a
\* particle the outer loop skips): the array as traceStreamline leaves it;
\* the returned path goes to the rendering surface
lineBody(ps, k, n) ==
  IF ps[k].charge <= 0 THEN ps
  ELSE traceStreamline(ps,
         ps[k].pos.x + MulFx(Cos(n), ps[k].radius + Fx(1)),
         ps[k].pos.y + MulFx(Sin(n), ps[k].radius + Fx(1))).particles

RECURSIVE lineLoop(_, _, _)
\* drawFieldLines' two loops, passes a to b; pass m is line m % 32 of
\* particles[m \div 32] (halved, to keep the evaluation flat)
lineLoop(ps, a, b) ==
  IF a > b THEN ps
  ELSE IF a = b
       THEN lineBody(ps, a \div numLinesPerCharge + 1, a % numLinesPerCharge)
  ELSE LET left == lineLoop(ps, a, (a + b) \div 2)
       IN  After(left, lineLoop(left, (a + b) \div 2 + 1, b))

\* the particles array as drawFieldLines leaves it
drawFieldLines(ps) == lineLoop(ps, 0, Len(ps) * numLinesPerCharge - 1)

\* how many values v = spacing/2, spacing/2 + spacing, ... lie below limit
gridCount(limit) ==
  (limit - Fx(spacing) \div 2 + Fx(spacing) - 1) \div Fx(spacing)

\* the inner loop's body at column c, row r; the arrow drawn from E goes to
\* the rendering surface
gridBody(ps, c, r) ==
  computeElectricFieldAtPoint(ps, Fx(spacing) \div 2 + c * Fx(spacing),
                                  Fx(spacing) \div 2 + r * Fx(spacing)).particles

RECURSIVE gridLoop(_, _, _)
\* drawElectricField's two loops, passes a to b, column by column (halved)
gridLoop(ps, a, b) ==
  IF a > b THEN ps
  ELSE IF a = b THEN gridBody(ps, a \div gridCount(height), a % gridCount(height))
  ELSE LET left == gridLoop(ps, a, (a + b) \div 2)
       IN  After(left, gridLoop(left, (a + b) \div 2 + 1, b))

\* the particles array as drawElectricField leaves it
drawElectricField(ps) ==
  gridLoop(ps, 0, gridCount(width) * gridCount(height) - 1)

-----------------------------------------------------------------------------
(* draw(): one frame *)

\* the particles array when the update loop starts: after the field passes
\* that are switched on, and applyCoulombForces
drawPasses(ps) ==
  LET a == IF showElectricField THEN drawElectricField(ps) ELSE ps
      b == IF showFieldLines THEN drawFieldLines(a) ELSE a
  IN  applyCoulombForces(b).particles

\* for (let p of particles) p.update()
updateAll(ps) == [k \in 1..Len(ps) |-> update(ps[k])]

\* the (particle, axis) pairs the update loop clamps, starting from ps
clamps(ps) ==
  LET out(p) == integrate(p).pos
  IN  Cardinality({k \in 1..Len(ps) : out(ps[k]).x < 0 \/ out(ps[k]).x > Fx(canvasWidth)})
      + Cardinality({k \in 1..Len(ps) : out(ps[k]).y < 0 \/ out(ps[k]).y > Fx(canvasHeight)})

\* the particles array at the end of the frame
draw(ps) == updateAll(drawPasses(ps))

-----------------------------------------------------------------------------
(* Particle management and the mouse *)

\* how many particles and visits the model follows
MaxParticles == 2

MaxTicks == 1

MaxSliderMoves == 1

Ids(ps) == {ps[k].id : k \in 1..Len(ps)}

\* a fresh object identity: one no live reference holds
NewId(ps, sel) ==
  CHOOSE i \in 1..(MaxParticles + 1) :
    /\ i \notin Ids(ps) \cup {sel}
    /\ \A j \in 1..(i - 1) : j \in Ids(ps) \cup {sel}

addParticle(ps, sel, x, y, charge) ==
  Append(ps, Particle(NewId(ps, sel), x, y, charge))

\* the hit test of getParticleAt and deleteParticleAt
hit(p, x, y) == Dist(x, y, p.pos.x, p.pos.y) < p.radius + Fx(hitMargin)

RECURSIVE getLoop(_, _, _, _)
getLoop(ps, k, x, y) ==
  IF k > Len(ps) THEN NullRef
  ELSE IF hit(ps[k], x, y) THEN ps[k].id
  ELSE getLoop(ps, k + 1, x, y)

\* a reference to the first particle hit, oldest first, or NullRef
getParticleAt(ps, x, y) == getLoop(ps, 1, x, y)

\* particles.splice(k, 1)
splice(ps, k) == SubSeq(ps, 1, k - 1) \o SubSeq(ps, k + 1, Len(ps))

\* deleteParticleAt, were it to scan oldest first
deleteOldestHit(ps, x, y) ==
  IF \E k \in 1..Len(ps) : hit(ps[k], x, y)
  THEN splice(ps, CHOOSE k \in 1..Len(ps) :
                    hit(ps[k], x, y) /\ \A j \in 1..(k - 1) : ~hit(ps[j], x, y))
  ELSE ps

RECURSIVE deleteLoop(_, _, _, _)
deleteLoop(ps, k, x, y) ==
  IF k < 1 THEN ps
  ELSE IF hit(ps[k], x, y) THEN splice(ps, k)
  ELSE deleteLoop(ps, k - 1, x, y)

\* the particles array after deleteParticleAt(x, y)
deleteParticleAt(ps, x, y) == deleteLoop(ps, Len(ps), x, y)

\* the indices of the particles under (x, y)
hits(ps, x, y) == {k \in 1..Len(ps) : hit(ps[k], x, y)}

mouseInCanvas(mx, my) == mx >= 0 /\ mx <= width /\ my >= 0 /\ my <= height

\* a drag, were it to stop the particle it moves
setPosAndStop(ps, sel, x, y) ==
  [k \in 1..Len(ps) |->
     IF ps[k].id = sel THEN [ps[k] EXCEPT !.pos = Vec(x, y), !.vel = Vec(0, 0)]
     ELSE ps[k]]

\* selectedParticle.pos.set(x, y): a write through the reference sel, which
\* reaches the array only if the object is still in it
setPos(ps, sel, x, y) ==
  [k \in 1..Len(ps) |-> IF ps[k].id = sel THEN [ps[k] EXCEPT !.pos = Vec(x, y)]
                        ELSE ps[k]]

-----------------------------------------------------------------------------
(* Inputs the model draws from *)

Tools == {"addPlus", "addMinus", "addRandom", "select", "erase"}

\* mouse positions inside the canvas, within a hit radius of each other
PressPoints == {Vec(Fx(100), Fx(100)), Vec(Fx(103), Fx(100))}

\* a mouse position past the left and the bottom edge
OutsidePoint == Vec(Fx(-20), Fx(canvasHeight + 20))

DragPoints == {Vec(Fx(103), Fx(100)), OutsidePoint}

MousePoints == PressPoints \cup {OutsidePoint}

\* slider positions other than the defaults
FrictionValues == {0, Dec(1, 2)}

KValues == {Fx(400)}

MinDistValues == {Fx(12)}

\* what a mouse handler or a frame leaves in last: what it did and a count
\* of what it met (erase, select: the particles under the mouse; drag: the
\* writes it made; draw: the axes it clamped)
Event(op, n) == [op |-> op, n |-> n]

-----------------------------------------------------------------------------
(* Handlers *)

config == <<showElectricField, showFieldLines, globalFriction, kCoulomb, minDistance>>

aux == <<moves, phase, calls, tr>>

\* a tool button's onclick (setToolButton)
toolClick(toolName) ==
  /\ activeTool' = toolName
  /\ UNCHANGED <<particles, selectedParticle, dragging, hasPlacedParticle,
                 config, ticks, last, aux>>

\* tool-clear's onclick
clearClick ==
  /\ particles' = <<>>
  /\ UNCHANGED <<activeTool, selectedParticle, dragging, hasPlacedParticle,
                 config, ticks, last, aux>>

toggleField ==
  /\ showElectricField' = ~showElectricField
  /\ UNCHANGED <<particles, activeTool, selectedParticle, dragging,
                 hasPlacedParticle, showFieldLines, globalFriction, kCoulomb,
                 minDistance, ticks, last, aux>>

toggleLines ==
  /\ showFieldLines' = ~showFieldLines
  /\ UNCHANGED <<particles, activeTool, selectedParticle, dragging,
                 hasPlacedParticle, showElectricField, globalFriction, kCoulomb,
                 minDistance, ticks, last, aux>>

sliderK(v) ==
  /\ moves < MaxSliderMoves
  /\ moves' = moves + 1
  /\ kCoulomb' = v
  /\ UNCHANGED <<particles, activeTool, selectedParticle, dragging,
                 hasPlacedParticle, showElectricField, showFieldLines,
                 globalFriction, minDistance, ticks, last, phase, calls, tr>>

sliderFriction(v) ==
  /\ moves < MaxSliderMoves
  /\ moves' = moves + 1
  /\ globalFriction' = v
  /\ UNCHANGED <<particles, activeTool, selectedParticle, dragging,
                 hasPlacedParticle, showElectricField, showFieldLines,
                 kCoulomb, minDistance, ticks, last, phase, calls, tr>>

sliderMinDist(v) ==
  /\ moves < MaxSliderMoves
  /\ moves' = moves + 1
  /\ minDistance' = v
  /\ UNCHANGED <<particles, activeTool, selectedParticle, dragging,
                 hasPlacedParticle, showElectricField, showFieldLines,
                 globalFriction, kCoulomb, ticks, last, phase, calls, tr>>

\* the charges an add tool may place: random([1, -1]) picks either
toolCharges(tool) ==
  IF tool = "addPlus" THEN {Fx(1)}
  ELSE IF tool = "addMinus" THEN {Fx(-1)}
  ELSE {Fx(1), Fx(-1)}

mousePressed(mx, my) ==
  /\ last' = IF mouseInCanvas(mx, my) /\ activeTool \in {"erase", "select"}
             THEN Event(activeTool, Cardinality(hits(particles, mx, my)))
             ELSE Event("press", 0)
  /\ IF ~mouseInCanvas(mx, my)
     THEN UNCHANGED <<particles, selectedParticle, dragging, hasPlacedParticle>>
     ELSE IF activeTool \in {"addPlus", "addMinus", "addRandom"}
     THEN /\ Len(particles) < MaxParticles
          /\ \E charge \in toolCharges(activeTool) :
               particles' = addParticle(particles, selectedParticle, mx, my, charge)
          /\ hasPlacedParticle' = TRUE
          /\ UNCHANGED <<selectedParticle, dragging>>
     ELSE IF activeTool = "erase"
     THEN /\ particles' = deleteParticleAt(particles, mx, my)
          /\ UNCHANGED <<selectedParticle, dragging, hasPlacedParticle>>
     ELSE IF activeTool = "select"
     THEN /\ selectedParticle' = getParticleAt(particles, mx, my)
          /\ dragging' = (selectedParticle' # NullRef)
          /\ UNCHANGED <<particles, hasPlacedParticle>>
     ELSE UNCHANGED <<particles, selectedParticle, dragging, hasPlacedParticle>>
  /\ UNCHANGED <<activeTool, config, ticks, aux>>

mouseDragged(mx, my) ==
  /\ IF activeTool = "select" /\ dragging /\ selectedParticle # NullRef
     THEN /\ particles' = setPos(particles, selectedParticle, mx, my)
          /\ last' = Event("drag", 1)
     ELSE /\ particles' = particles
          /\ last' = Event("drag", 0)
  /\ UNCHANGED <<activeTool, selectedParticle, dragging, hasPlacedParticle,
                 config, ticks, aux>>

mouseReleased ==
  /\ dragging' = FALSE
  /\ selectedParticle' = NullRef
  /\ UNCHANGED <<particles, activeTool, hasPlacedParticle, config, ticks, last, aux>>

\* one frame, while fewer than bound frames have run
Frame(bound) ==
  /\ ticks < bound
  /\ LET pre == drawPasses(particles)
     IN  /\ particles' = updateAll(pre)
         /\ last' = Event("draw", clamps(pre))
  /\ ticks' = ticks + 1
  /\ UNCHANGED <<activeTool, selectedParticle, dragging, hasPlacedParticle,
                 config, aux>>

Draw == Frame(MaxTicks)

-----------------------------------------------------------------------------
(* The sketch under its input layer: the globals as the script sets them,  *)
(* then any interleaving of handlers and frames.  The two field toggles     *)
(* are left alone here.                                                      *)

Init ==
  /\ particles = <<>>
  /\ activeTool = Null
  /\ selectedParticle = NullRef
  /\ dragging = FALSE
  /\ hasPlacedParticle = FALSE
  /\ showElectricField = FALSE
  /\ showFieldLines = FALSE
  /\ globalFriction = Dec(2, 100)
  /\ kCoulomb = Fx(800)
  /\ minDistance = Fx(8)
  /\ ticks = 0
  /\ moves = 0
  /\ last = Event("setup", 0)
  /\ phase = "idle"
  /\ calls = <<>>
  /\ tr = traceIdle

Next ==
  \/ \E t \in Tools : toolClick(t)
  \/ clearClick
  \/ \E v \in KValues : sliderK(v)
  \/ \E v \in FrictionValues : sliderFriction(v)
  \/ \E v \in MinDistValues : sliderMinDist(v)
  \/ \E m \in MousePoints : mousePressed(m.x, m.y)
  \/ \E m \in DragPoints : mouseDragged(m.x, m.y)
  \/ mouseReleased
  \/ Draw

Spec == Init /\ [][Next]_vars

-----------------------------------------------------------------------------
(* The frame's physics on its own: particles as clicks have placed them,    *)
(* the sliders anywhere, and draw() with both field toggles off, followed   *)
(* pass by pass: applyCoulombForces, then the update loop.                  *)

MaxPhysTicks == 2

Charges == {Fx(1), Fx(-1)}

\* the arrays that clicks at the points pts leave: n particles
Placed(n, pts) ==
  { [k \in 1..n |-> Particle(k, f[k][1].x, f[k][1].y, f[k][2])] :
      f \in [1..n -> pts \X Charges] }

\* the globals with the particles array ps and the sliders at f, k, md
Setup(ps, f, k, md) ==
  /\ particles = ps
  /\ activeTool = Null
  /\ selectedParticle = NullRef
  /\ dragging = FALSE
  /\ hasPlacedParticle = (ps # <<>>)
  /\ showElectricField = FALSE
  /\ showFieldLines = FALSE
  /\ globalFriction = f
  /\ kCoulomb = k
  /\ minDistance = md
  /\ ticks = 0
  /\ moves = 0
  /\ last = Event("setup", 0)
  /\ phase = "idle"
  /\ calls = <<>>
  /\ tr = traceIdle

TickPoints == {Vec(Fx(100), Fx(100)), Vec(Fx(103), Fx(100)), Vec(Fx(200), Fx(100))}

InitTick ==
  \E ps \in Placed(2, TickPoints) \cup Placed(3, TickPoints) :
    \E f \in {0, Dec(2, 100)}, k \in {Fx(800), Fx(400)}, md \in {Fx(8), Fx(12)} :
      Setup(ps, f, k, md)

ForcePass ==
  /\ phase = "idle"
  /\ ticks < MaxPhysTicks
  /\ LET r == applyCoulombForces(particles)
     IN  /\ particles' = r.particles
         /\ calls' = r.calls
  /\ phase' = "forces"
  /\ UNCHANGED <<activeTool, selectedParticle, dragging, hasPlacedParticle,
                 config, ticks, moves, last, tr>>

UpdatePass ==
  /\ phase = "forces"
  /\ particles' = updateAll(particles)
  /\ last' = Event("draw", clamps(particles))
  /\ phase' = "idle"
  /\ ticks' = ticks + 1
  /\ UNCHANGED <<activeTool, selectedParticle, dragging, hasPlacedParticle,
                 config, moves, calls, tr>>

NextTick == ForcePass \/ UpdatePass

SpecTick == InitTick /\ [][NextTick]_vars

-----------------------------------------------------------------------------
(* A lone particle coasting: no force acts on it, frame after frame *)

MaxFrictionTicks == 60

\* a lone particle as an erased partner left it: near where it was placed, or
\* dragged off the canvas, with the velocity the pair's forces gave it
Coasting ==
  { << [Particle(1, at.x, at.y, q) EXCEPT !.vel = v] >> :
      at \in {Vec(Fx(100) + 80, Fx(100)), OutsidePoint},
      q  \in Charges,
      v  \in {Vec(80, 0), Vec(0, -80), Vec(-57, 57)} }

InitFriction ==
  \E ps \in Coasting : \E f \in {Dec(2, 100), Dec(1, 2)} :
    Setup(ps, f, Fx(800), Fx(8))

Coast == Frame(MaxFrictionTicks)

SpecFriction == InitFriction /\ [][Coast]_vars

-----------------------------------------------------------------------------
(* traceStreamline, pass by pass *)

TracePoints == {Vec(Fx(100), Fx(100)), Vec(Fx(200), Fx(100))}

\* seed points: beside the left particle, between the two, and far off
Seeds ==
  {Vec(Fx(106), Fx(100)), Vec(Fx(100), Fx(94)), Vec(Fx(149), Fx(100)),
   Vec(Fx(400), Fx(300))}

InitTrace ==
  \E ps \in {<<>>} \cup Placed(1, TracePoints) \cup Placed(2, TracePoints) :
    \E md \in {Fx(8), Fx(12)} : Setup(ps, Dec(2, 100), Fx(800), md)

\* a call traceStreamline(startX, startY), once no earlier call is running
traceCall(startX, startY) ==
  /\ tr.exit # ""
  /\ tr' = traceStart(startX, startY)
  /\ UNCHANGED <<particles, activeTool, selectedParticle, dragging,
                 hasPlacedParticle, config, ticks, moves, last, phase, calls>>

\* one pass of the loop
traceIter ==
  /\ tr.exit = ""
  /\ LET s == traceStep(particles, tr)
     IN  /\ tr' = s.st
         /\ particles' = s.particles
  /\ UNCHANGED <<activeTool, selectedParticle, dragging, hasPlacedParticle,
                 config, ticks, moves, last, phase, calls>>

NextTrace ==
  \/ \E sd \in Seeds : traceCall(sd.x, sd.y)
  \/ traceIter

SpecTrace == InitTrace /\ [][NextTrace]_vars

-----------------------------------------------------------------------------
(* Frames with the field drawn: the two toggles and draw() *)

MaxVizTicks == 1

VizPoints == {Vec(Fx(100), Fx(100)), Vec(Fx(103), Fx(100))}

InitViz ==
  \E ps \in Placed(1, VizPoints) \cup Placed(2, VizPoints) :
    Setup(ps, Dec(2, 100), Fx(800), Fx(8))

DrawViz == Frame(MaxVizTicks)

NextViz == toggleField \/ toggleLines \/ DrawViz

SpecViz == InitViz /\ [][NextViz]_vars

-----------------------------------------------------------------------------
(* The hit test under the erase and select tools, on arrays of up to three  *)
(* particles within reach of each other                                     *)

HitPoints == {Vec(Fx(100), Fx(100)), Vec(Fx(103), Fx(100)), Vec(Fx(106), Fx(100))}

\* mouse positions: over all three points, over the last only, over none
HitQueries == {Vec(Fx(100), Fx(100)), Vec(Fx(110), Fx(100)), Vec(Fx(300), Fx(300))}

InitHit ==
  \E ps \in {<<>>} \cup Placed(1, HitPoints) \cup Placed(2, HitPoints)
             \cup Placed(3, HitPoints) :
    Setup(ps, Dec(2, 100), Fx(800), Fx(8))

NextHit ==
  \/ \E t \in {"erase", "select"} : toolClick(t)
  \/ \E m \in HitQueries : mousePressed(m.x, m.y)
  \/ mouseReleased

SpecHit == InitHit /\ [][NextHit]_vars

-----------------------------------------------------------------------------
(* Properties *)

\* a step that runs draw()'s update loop
Tick == ticks' = ticks + 1

\* C1: after every tick each particle lies in [0, width] x [0, height],
\* whatever creates, deletes, clears, drags and slider inputs came before, and
\* on each axis the tick clamped the velocity component has its sign inverted
C1_TickEndsInsideCanvas ==
  [][Tick =>
       \A k \in 1..Len(particles') :
         LET m == integrate(drawPasses(particles)[k])
             q == particles'[k]
         IN  /\ q.pos.x >= 0 /\ q.pos.x <= width
             /\ q.pos.y >= 0 /\ q.pos.y <= height
             /\ (m.pos.x < 0 \/ m.pos.x > width) => q.vel.x = -m.vel.x
             /\ (m.pos.y < 0 \/ m.pos.y > height) => q.vel.y = -m.vel.y]_vars

\* a tick has clamped a moving particle that a drag had left off the canvas
C1_ClampedAtCorner ==
  /\ last.op = "draw"
  /\ last.n >= 2
  /\ \E k \in 1..Len(particles) :
       /\ particles[k].pos = Vec(0, height)
       /\ particles[k].vel.x # 0
       /\ particles[k].vel.y # 0

\* C6: with particles under the mouse, deleteParticleAt removes exactly the
\* newest of them and keeps the rest in order, and getParticleAt returns the
\* oldest of them and leaves the array alone; with none under the mouse,
\* deleteParticleAt changes nothing and getParticleAt returns null
C6_HitTestTieBreak ==
  [][\A m \in HitQueries :
       (mouseInCanvas(m.x, m.y) /\ mousePressed(m.x, m.y)) =>
         LET H      == hits(particles, m.x, m.y)
             newest == CHOOSE k \in H : \A j \in H : j <= k
             oldest == CHOOSE k \in H : \A j \in H : j >= k
         IN  /\ activeTool = "erase" =>
                  IF H = {} THEN particles' = particles
                  ELSE /\ Len(particles') = Len(particles) - 1
                       /\ \A k \in 1..Len(particles') :
                            particles'[k] = IF k < newest THEN particles[k]
                                            ELSE particles[k + 1]
             /\ activeTool = "select" =>
                  /\ particles' = particles
                  /\ selectedParticle' = IF H = {} THEN NullRef
                                         ELSE particles[oldest].id]_vars

\* an erase press over three particles has removed one of them
C6_ErasedOneOfThree ==
  /\ last = Event("erase", 3)
  /\ Len(particles) = 2

\* C7: a drag with the select tool on a selected particle overwrites that
\* particle's position and nothing else; any other mouseDragged changes nothing
C7_DragWritesPositionOnly ==
  [][\A m \in DragPoints :
       mouseDragged(m.x, m.y) =>
         /\ UNCHANGED <<activeTool, selectedParticle, dragging, hasPlacedParticle,
                        config, ticks>>
         /\ IF activeTool = "select" /\ dragging /\ selectedParticle # NullRef
            THEN /\ Len(particles') = Len(particles)
                 /\ \A k \in 1..Len(particles) :
                      /\ particles'[k].id = particles[k].id
                      /\ particles'[k].vel = particles[k].vel
                      /\ particles'[k].acc = particles[k].acc
                      /\ particles'[k].charge = particles[k].charge
                      /\ particles'[k].mass = particles[k].mass
                      /\ particles'[k].radius = particles[k].radius
                      /\ particles'[k].pos =
                           IF particles[k].id = selectedParticle
                           THEN Vec(m.x, m.y) ELSE particles[k].pos
            ELSE particles' = particles]_vars

\* a drag has put a moving particle off the canvas, beside another particle
C7_DraggedWhileMoving ==
  /\ last = Event("drag", 1)
  /\ dragging
  /\ Len(particles) = 2
  /\ \E k \in 1..Len(particles) :
       /\ particles[k].id = selectedParticle
       /\ particles[k].pos = OutsidePoint
       /\ particles[k].vel # Vec(0, 0)

\* C10: whenever dragging is true, selectedParticle is non-null and refers to
\* a particle of the current array
C10_DraggingHoldsLiveParticle ==
  dragging => (selectedParticle # NullRef /\ selectedParticle \in Ids(particles))

RECURSIVE SumAcc(_, _)
\* the sum of the accelerations of particles k .. Len(ps)
SumAcc(ps, k) ==
  IF k > Len(ps) THEN Vec(0, 0) ELSE VAdd(ps[k].acc, SumAcc(ps, k + 1))

\* the two particles the c-th pass of the pair loop applied its forces to
PairOf(c) == {calls[2 * c - 1].to, calls[2 * c].to}

C3_MinDistanceFloor ==
  phase = "forces" =>
    \A c \in 1..(Len(calls) \div 2) :
      \A i, j \in 1..Len(particles) :
        ( /\ particles[i].id = calls[2 * c - 1].to
          /\ particles[j].id = calls[2 * c].to
          /\ Dist(particles[i].pos.x, particles[i].pos.y,
                  particles[j].pos.x, particles[j].pos.y) < minDistance )
        => LET floor == DivFx(MulFx(kCoulomb,
                                    Abs(MulFx(particles[i].charge, particles[j].charge))),
                              MulFx(minDistance, minDistance))
           IN  /\ VMag(calls[2 * c - 1].force) = floor
               /\ VMag(calls[2 * c].force) = floor

\* the scenario: +1 at (100,100), -1 at (200,100), at rest, kCoulomb 800,
\* minDistance 8, friction 0
Scenario ==
  /\ globalFriction = 0
  /\ kCoulomb = Fx(800)
  /\ minDistance = Fx(8)
  /\ Len(particles) = 2
  /\ particles[1].charge = Fx(1)
  /\ particles[1].pos = Vec(Fx(100), Fx(100))
  /\ particles[1].vel = Vec(0, 0)
  /\ particles[2].charge = Fx(-1)
  /\ particles[2].pos = Vec(Fx(200), Fx(100))
  /\ particles[2].vel = Vec(0, 0)

\* v clamped to [0, limit]
Clamp(v, limit) == Max(0, Min(v, limit))

\* C8: a tick sets each particle's velocity to old velocity * (1 - friction) +
\* acceleration, its position to old position + new velocity, its acceleration
\* to zero, and then reflects at the edges; the acceleration is zero at the end
\* of every tick; and in the scenario the positive particle's velocity after
\* one tick is (0.08, 0)
C8_IntegratorOrder ==
  /\ [](phase = "idle" =>
          \A k \in 1..Len(particles) : particles[k].acc = Vec(0, 0))
  /\ [][(phase = "forces" /\ phase' = "idle") =>
          /\ \A k \in 1..Len(particles) :
               LET p  == particles[k]
                   q  == particles'[k]
                   vx == MulFx(p.vel.x, Fx(1) - globalFriction) + p.acc.x
                   vy == MulFx(p.vel.y, Fx(1) - globalFriction) + p.acc.y
                   x  == p.pos.x + vx
                   y  == p.pos.y + vy
               IN  /\ q.acc = Vec(0, 0)
                   /\ q.pos = Vec(Clamp(x, width), Clamp(y, height))
                   /\ q.vel.x = IF x = Clamp(x, width) THEN vx ELSE -vx
                   /\ q.vel.y = IF y = Clamp(y, height) THEN vy ELSE -vy
          /\ (ticks = 0 /\ Scenario) => particles'[1].vel = Vec(Dec(8, 100), 0)]_vars

\* the scenario's two particles after its first tick
C8_ScenarioAfterOneTick ==
  /\ phase = "idle"
  /\ ticks = 1
  /\ globalFriction = 0
  /\ kCoulomb = Fx(800)
  /\ minDistance = Fx(8)
  /\ Len(particles) = 2
  /\ particles[1].charge = Fx(1)
  /\ particles[1].vel = Vec(Dec(8, 100), 0)
  /\ particles[1].pos = Vec(Fx(100) + Dec(8, 100), Fx(100))
  /\ particles[2].charge = Fx(-1)
  /\ particles[2].pos = Vec(Fx(200) - Dec(8, 100), Fx(100))

\* the point pt of a streamline lies in the canvas and outside the
\* absorption radius of every negative particle
Clear(pt) == ~outside(pt[1], pt[2]) /\ ~absorbed(particles, pt[1], pt[2])

\* the field magnitude traceStreamline samples at its current point
SampledMag == VMag(computeElectricFieldAtPoint(particles, tr.x, tr.y).E)

\* C4: traceStreamline makes at most maxStreamlineLen passes and returns at
\* most maxStreamlineLen points; it stops early exactly when the sampled field
\* magnitude is below 0.01, before appending a point, or right after appending
\* a point outside the canvas or within radius + 4 of a negative particle; so
\* every point but the last is inside the canvas and outside every such radius
C4_StreamlineStops ==
  /\ []( /\ Len(tr.pts) <= maxStreamlineLen
         /\ tr.exit = "" => (tr.i < maxStreamlineLen /\ Len(tr.pts) = tr.i)
         /\ \A n \in 1..(Len(tr.pts) - 1) : Clear(tr.pts[n])
         /\ (tr.exit = "" /\ tr.pts # <<>>) => Clear(tr.pts[Len(tr.pts)])
         /\ tr.exit = "null" => SampledMag < fieldThreshold
         /\ tr.exit \in {"outside", "sink"} => ~Clear(tr.pts[Len(tr.pts)])
         /\ tr.exit = "length" =>
              (Len(tr.pts) = maxStreamlineLen /\ Clear(tr.pts[Len(tr.pts)])) )
  /\ [][tr.exit = "" =>
          /\ tr'.exit # "" \/ tr'.i = tr.i + 1
          /\ (SampledMag < fieldThreshold) <=> (tr'.exit = "null")
          /\ Len(tr'.pts) = IF tr'.exit = "null" THEN Len(tr.pts)
                            ELSE Len(tr.pts) + 1]_vars

\* a streamline has run to its full length
C4_FullLength ==
  /\ tr.exit = "length"
  /\ Len(tr.pts) = maxStreamlineLen

\* points at which the field is sampled and a streamline is started
Probes == {Vec(Fx(110), Fx(100))}

\* C5: computeElectricFieldAtPoint, traceStreamline, drawElectricField and
\* drawFieldLines leave the particles array as they found it, so a tick with
\* the field drawn ends in the particle state of the same tick without it
C5_FieldPassesReadOnly ==
  /\ [](\A pt \in Probes :
          /\ computeElectricFieldAtPoint(particles, pt.x, pt.y).particles = particles
          /\ traceStreamline(particles, pt.x, pt.y).particles = particles)
  /\ [][Tick =>
          /\ showElectricField => drawElectricField(particles) = particles
          /\ showFieldLines => drawFieldLines(particles) = particles
          /\ particles' = updateAll(applyCoulombForces(particles).particles)]_vars

\* a tick with both field passes on has moved a pair with a positive particle
C5_TickedWithFieldDrawn ==
  /\ last.op = "draw"
  /\ ticks = 1
  /\ showElectricField
  /\ showFieldLines
  /\ Len(particles) = 2
  /\ \E k \in 1..2 : particles[k].charge > 0
  /\ \E k \in 1..2 : particles[k].vel # Vec(0, 0)

\* the square of p's speed, in squared grid units
Speed2(p) == p.vel.x * p.vel.x + p.vel.y * p.vel.y

Damped(v) ==
  \/ 2 * Abs(v.x) * globalFriction > SCALE
  \/ 2 * Abs(v.y) * globalFriction > SCALE

=============================================================================
